---- MODULE Spec2Model ----
(***************************************************************************)
(* RoverSign/utils/database/models.py: the serialized data-access core.    *)
(* Coroutines call the three operations decorated with with_lock           *)
(* (WavesUser.mark_cookie_invalid, RoverSign.upsert_rover_sign,            *)
(* RoverSign.clear_sign_record); each runs lock -> session -> body ->      *)
(* commit/rollback -> unlock.  The event loop may switch coroutines at     *)
(* every await: waiting for the lock, session.execute, session.commit.     *)
(*                                                                         *)
(* Python values: a str is a TLA+ string (uid, cookie, status) or, where   *)
(* the code orders it (date), a sequence of digits; Optional[x] is <<>>    *)
(* for None and <<x>> for a value.                                         *)
(***************************************************************************)
EXTENDS Integers, Sequences, FiniteSets, TLC

\* ---- bounds -------------------------------------------------------------
NumProcs == 2
MaxCalls == 3
MaxVal == 2
MaxDay == 2
NumLockProcs == 3

Procs == 1..NumProcs
Uids == {"", "a", "b"}
Cookies == {"ck1"}
Marks == {"invalid"}

\* ---- Python values ------------------------------------------------------
None == <<>>
Some(v) == <<v>>

\* faulty variant: only None is falsy
Truthy_not_none(o) == o # None

\* bool(x) of an Optional[int]: None and 0 are falsy
Truthy(o) == o # None /\ o[1] # 0

\* bool(x) of an Optional[str]: None and "" are falsy
TruthyStr(o) == o # None /\ o[1] # <<>>

\* a calendar day printed as a fixed-width string of two digits
DayStr(n) == <<n \div 10, n % 10>>

\* faulty variant: the comparison is reversed
RECURSIVE StrGeq(_, _)
StrGeq(s, t) ==
    IF t = <<>> THEN TRUE
    ELSE IF s = <<>> THEN FALSE
    ELSE IF s[1] # t[1] THEN s[1] > t[1]
    ELSE StrGeq(Tail(s), Tail(t))

\* faulty variant: the comparison is strict
RECURSIVE StrLt(_, _)
StrLt(s, t) ==
    IF t = <<>> THEN FALSE
    ELSE IF s = <<>> THEN TRUE
    ELSE IF s[1] # t[1] THEN s[1] < t[1]
    ELSE StrLt(Tail(s), Tail(t))

\* s <= t on strings, as the database compares them (lexicographic)
RECURSIVE StrLeq(_, _)
StrLeq(s, t) ==
    IF s = <<>> THEN TRUE
    ELSE IF t = <<>> THEN FALSE
    ELSE IF s[1] # t[1] THEN s[1] < t[1]
    ELSE StrLeq(Tail(s), Tail(t))

VARIABLES
    DB_WRITE_LOCK,   \* the asyncio.Lock: [locked, waiters]
    rover_sign,      \* committed rows of table RoverSign
    waves_user,      \* committed rows of table WavesUser
    next_id,         \* the auto-increment primary key of RoverSign
    clock,           \* the process-local calendar day
    pc,              \* per coroutine: position in its call
    op,              \* per coroutine: the operation it called
    arg,             \* per coroutine: the call's arguments
    session,         \* per coroutine: the unit of work of its AsyncSession
    ret,             \* per coroutine: how the call ends: "None", "True", "record"
                     \* (the session's object, found or added) or "raise"
    calls            \* number of calls started so far

vars == <<DB_WRITE_LOCK, rover_sign, waves_user, next_id, clock,
          pc, op, arg, session, ret, calls>>

\* ---- RoverSignData ------------------------------------------------------
Fields == {"game_sign", "bbs_sign", "bbs_detail", "bbs_like", "bbs_share"}

get_today_date == DayStr(clock)

RoverSignData(uid, date, gs, bs, bd, bl, bsh) ==
    [uid |-> uid, date |-> date, game_sign |-> gs, bbs_sign |-> bs,
     bbs_detail |-> bd, bbs_like |-> bl, bbs_share |-> bsh]

build(uid) == RoverSignData(uid, Some(get_today_date), None, None, None, None, None)

build_game_sign(uid) == RoverSignData(uid, None, Some(1), None, None, None, None)

build_bbs_sign(uid) == RoverSignData(uid, None, None, Some(0), Some(0), Some(0), Some(0))

\* the deltas callers pass: what a builder returns, for any uid, and for one
\* account a builder's result with the date or one counter assigned afterwards
Dates == {None, Some(<<>>)} \cup {Some(DayStr(d)) : d \in 1..MaxDay}

Built(uid) == {build(uid), build_game_sign(uid), build_bbs_sign(uid)}

Deltas ==
    LET counters == {[build_bbs_sign("a") EXCEPT ![f] = Some(MaxVal)] : f \in Fields}
        dated    == {[build_game_sign("a") EXCEPT !.date = d] : d \in Dates}
    IN  UNION {Built(u) : u \in Uids} \cup counters \cup dated

\* ---- tables ---------------------------------------------------------------
\* the credential rows present when the process starts; cookie and user_id
\* are nullable strings
InitUsers ==
    {[id |-> 1, uid |-> "a", cookie |-> Some("ck1"), user_id |-> Some("u1"), status |-> ""],
     [id |-> 2, uid |-> "a", cookie |-> Some("ck1"), user_id |-> Some(""),   status |-> ""],
     [id |-> 3, uid |-> "b", cookie |-> Some(""),    user_id |-> Some("u2"), status |-> ""],
     [id |-> 4, uid |-> "a", cookie |-> Some("ck2"), user_id |-> None,       status |-> ""],
     [id |-> 5, uid |-> "b", cookie |-> None,        user_id |-> Some("u2"), status |-> ""],
     [id |-> 6, uid |-> "b", cookie |-> Some("ck2"), user_id |-> Some("u2"), status |-> ""]}

\* cls(**rover_sign_data.model_dump()): the new object carries the delta's
\* fields as they are, None included
NewRoverSign(data) == [data EXCEPT !.date = data.date[1]]

\* the column default of RoverSign's counters
DefaultCounter == 0

\* faulty variant: the new row is built from the key alone
InsertRow_key_only(obj, id) ==
    [f \in Fields \cup {"id", "uid", "date"} |->
        IF f = "id" THEN id
        ELSE IF f \in Fields THEN DefaultCounter
        ELSE obj[f]]

\* the INSERT of a new object: the key is generated, and a counter that is
\* None takes the column default
InsertRow(obj, id) ==
    [f \in Fields \cup {"id", "uid", "date"} |->
        IF f = "id" THEN id
        ELSE IF f \in Fields
             THEN (IF obj[f] = None THEN DefaultCounter ELSE obj[f][1])
             ELSE obj[f]]

\* ---- per-call state -------------------------------------------------------
NoSession == [begun |-> FALSE, found |-> None, record |-> None, add |-> None,
              del |-> {}, upd |-> {}]

NoRet == "pending"

Init ==
    /\ DB_WRITE_LOCK = [locked |-> FALSE, waiters |-> <<>>]
    /\ rover_sign = {}
    /\ waves_user = InitUsers
    /\ next_id = 1
    /\ clock = 1
    /\ pc = [p \in Procs |-> "idle"]
    /\ op = [p \in Procs |-> "none"]
    /\ arg = [p \in Procs |-> <<>>]
    /\ session = [p \in Procs |-> NoSession]
    /\ ret = [p \in Procs |-> NoRet]
    /\ calls = 0

\* ---- with_lock ------------------------------------------------------------
\* faulty variant: the lock is entered without looking at its state
LockFree_always == TRUE

\* asyncio.Lock.acquire as entered by "async with _DB_WRITE_LOCK": taken at
\* once when free and nobody waits, otherwise the caller queues
LockFree == ~DB_WRITE_LOCK.locked /\ DB_WRITE_LOCK.waiters = <<>>

\* faulty variant: clear_sign_record is not decorated with with_lock
with_lock_not_clear(p, o, a) ==
    /\ pc[p] = "idle"
    /\ calls < MaxCalls
    /\ calls' = calls + 1
    /\ op' = [op EXCEPT ![p] = o]
    /\ arg' = [arg EXCEPT ![p] = a]
    /\ IF o = "clear_sign_record"
       THEN /\ UNCHANGED DB_WRITE_LOCK
            /\ pc' = [pc EXCEPT ![p] = "body"]
       ELSE IF LockFree
       THEN /\ DB_WRITE_LOCK' = [DB_WRITE_LOCK EXCEPT !.locked = TRUE]
            /\ pc' = [pc EXCEPT ![p] = "body"]
       ELSE /\ DB_WRITE_LOCK' = [DB_WRITE_LOCK EXCEPT !.waiters = Append(@, p)]
            /\ pc' = [pc EXCEPT ![p] = "waiting"]
    /\ ret' = [ret EXCEPT ![p] = NoRet]
    /\ UNCHANGED <<rover_sign, waves_user, next_id, clock, session>>

with_lock(p, o, a) ==
    /\ pc[p] = "idle"
    /\ calls < MaxCalls
    /\ calls' = calls + 1
    /\ op' = [op EXCEPT ![p] = o]
    /\ arg' = [arg EXCEPT ![p] = a]
    /\ IF LockFree
       THEN /\ DB_WRITE_LOCK' = [DB_WRITE_LOCK EXCEPT !.locked = TRUE]
            /\ pc' = [pc EXCEPT ![p] = "body"]
       ELSE /\ DB_WRITE_LOCK' = [DB_WRITE_LOCK EXCEPT !.waiters = Append(@, p)]
            /\ pc' = [pc EXCEPT ![p] = "waiting"]
    /\ ret' = [ret EXCEPT ![p] = NoRet]
    /\ UNCHANGED <<rover_sign, waves_user, next_id, clock, session>>

\* faulty variant: the release wakes the waiter that came last
lock_wakeup_last(p) ==
    /\ pc[p] = "waiting"
    /\ ~DB_WRITE_LOCK.locked
    /\ DB_WRITE_LOCK.waiters # <<>>
    /\ DB_WRITE_LOCK.waiters[Len(DB_WRITE_LOCK.waiters)] = p
    /\ DB_WRITE_LOCK' = [locked |-> TRUE,
                         waiters |-> SubSeq(DB_WRITE_LOCK.waiters, 1,
                                            Len(DB_WRITE_LOCK.waiters) - 1)]
    /\ pc' = [pc EXCEPT ![p] = "body"]
    /\ UNCHANGED <<rover_sign, waves_user, next_id, clock, op, arg, session, ret, calls>>

\* a waiter resumes once the lock was released and it is first in line
lock_wakeup(p) ==
    /\ pc[p] = "waiting"
    /\ ~DB_WRITE_LOCK.locked
    /\ DB_WRITE_LOCK.waiters # <<>>
    /\ Head(DB_WRITE_LOCK.waiters) = p
    /\ DB_WRITE_LOCK' = [locked |-> TRUE, waiters |-> Tail(DB_WRITE_LOCK.waiters)]
    /\ pc' = [pc EXCEPT ![p] = "body"]
    /\ UNCHANGED <<rover_sign, waves_user, next_id, clock, op, arg, session, ret, calls>>

\* faulty variant: release() follows the body without try/finally
lock_release_no_finally(p) ==
    /\ pc[p] = "unlock"
    /\ DB_WRITE_LOCK' = IF ret[p] = "raise" THEN DB_WRITE_LOCK
                        ELSE [DB_WRITE_LOCK EXCEPT !.locked = FALSE]
    /\ pc' = [pc EXCEPT ![p] = "idle"]
    /\ op' = [op EXCEPT ![p] = "none"]
    /\ arg' = [arg EXCEPT ![p] = <<>>]
    /\ session' = [session EXCEPT ![p] = NoSession]
    /\ UNCHANGED <<rover_sign, waves_user, next_id, clock, ret, calls>>

\* faulty variant: the wrapper runs the operation again when it raised
lock_release_retry(p) ==
    /\ pc[p] = "unlock"
    /\ IF ret[p] = "raise"
       THEN /\ pc' = [pc EXCEPT ![p] = "body"]
            /\ ret' = [ret EXCEPT ![p] = NoRet]
            /\ UNCHANGED <<DB_WRITE_LOCK, op, arg>>
       ELSE /\ DB_WRITE_LOCK' = [DB_WRITE_LOCK EXCEPT !.locked = FALSE]
            /\ pc' = [pc EXCEPT ![p] = "idle"]
            /\ op' = [op EXCEPT ![p] = "none"]
            /\ arg' = [arg EXCEPT ![p] = <<>>]
            /\ UNCHANGED ret
    /\ session' = [session EXCEPT ![p] = NoSession]
    /\ UNCHANGED <<rover_sign, waves_user, next_id, clock, calls>>

\* leaving "async with": release, and the call returns or raises to its caller
lock_release(p) ==
    /\ pc[p] = "unlock"
    /\ DB_WRITE_LOCK' = [DB_WRITE_LOCK EXCEPT !.locked = FALSE]
    /\ pc' = [pc EXCEPT ![p] = "idle"]
    /\ op' = [op EXCEPT ![p] = "none"]
    /\ arg' = [arg EXCEPT ![p] = <<>>]
    /\ session' = [session EXCEPT ![p] = NoSession]
    /\ UNCHANGED <<rover_sign, waves_user, next_id, clock, ret, calls>>

\* ---- with_session ---------------------------------------------------------
\* what the unit of work writes when it commits: the table after the flush
\* (UPDATE of the columns changed on a loaded row, INSERT of added objects,
\* rows removed by an executed DELETE)
Flushed(s) ==
    LET kept == {r \in rover_sign : r.id \notin {d.id : d \in s.del}}
        updated ==
            IF s.record = None THEN kept
            ELSE {IF r.id = s.record[1].id
                  THEN [f \in DOMAIN r |->
                          IF f \in Fields /\ s.record[1][f] # s.found[1][f]
                          THEN s.record[1][f] ELSE r[f]]
                  ELSE r : r \in kept}
    IN  IF s.add = None THEN updated
        ELSE updated \cup {InsertRow(s.add[1], next_id)}

FlushedUsers(s, mark) ==
    {IF u.id \in s.upd THEN [u EXCEPT !.status = mark] ELSE u : u \in waves_user}

\* the body returned: commit.  A commit that reaches the database may fail,
\* and then the unit of work is rolled back and the error is raised.
session_commit(p) ==
    /\ pc[p] = "commit"
    /\ \/ /\ rover_sign' = Flushed(session[p])
          /\ waves_user' = IF op[p] = "mark_cookie_invalid"
                           THEN FlushedUsers(session[p], arg[p].mark)
                           ELSE waves_user
          /\ next_id' = IF session[p].add = None THEN next_id ELSE next_id + 1
          /\ UNCHANGED ret
       \/ /\ session[p].begun
          /\ ret' = [ret EXCEPT ![p] = "raise"]
          /\ UNCHANGED <<rover_sign, waves_user, next_id>>
    /\ pc' = [pc EXCEPT ![p] = "unlock"]
    /\ UNCHANGED <<DB_WRITE_LOCK, clock, op, arg, session, calls>>

\* the body raised: the unit of work is dropped and the error goes on to
\* with_lock
Raised(p) ==
    /\ ret' = [ret EXCEPT ![p] = "raise"]
    /\ session' = [session EXCEPT ![p] = [NoSession EXCEPT !.begun = TRUE]]
    /\ pc' = [pc EXCEPT ![p] = "unlock"]

\* ---- RoverSign ------------------------------------------------------------
\* faulty variant: the lookup filters on today's date, not on the date passed
find_sign_record_today(uid, date) ==
    {r \in rover_sign : r.uid = uid /\ r.date = get_today_date}

\* select(cls).where(cls.uid == uid).where(cls.date == date), on a table
select_sign_record(rows, uid, date) == {r \in rows : r.uid = uid /\ r.date = date}

\* _find_sign_record in the caller's session: the rows first() may return
find_sign_record(uid, date) == select_sign_record(rover_sign, uid, date)

\* faulty variant: the check of the uid is missing
not_uid_missing(data) == FALSE

\* "not rover_sign_data.uid"
not_uid(data) == data.uid = ""

\* faulty variant: the delta is added to the stored counter
setattrs_add(record, data) ==
    [f \in DOMAIN record |->
        IF f \in Fields /\ Truthy(data[f]) THEN record[f] + data[f][1] ELSE record[f]]

\* the loop over the five counters: a truthy value of the delta is assigned
setattrs(record, data) ==
    [f \in DOMAIN record |->
        IF f \in Fields /\ Truthy(data[f]) THEN data[f][1] ELSE record[f]]

\* faulty variant: a missing date takes the column default, which is get_today_date()
\* as evaluated once when the class is defined
resolve_date_import(data) == IF TruthyStr(data.date) THEN data.date[1] ELSE DayStr(1)

\* rover_sign_data.date or get_today_date()
resolve_date(data) == IF TruthyStr(data.date) THEN data.date[1] ELSE get_today_date

\* upsert_rover_sign run from lookup to commit with nothing in between, on the
\* table rows and with the delta's date resolved: the tables it may leave
upsert_alone(rows, data, id) ==
    IF not_uid(data) THEN {rows}
    ELSE LET hit == select_sign_record(rows, data.uid, data.date[1])
         IN  IF hit = {}
             THEN {rows \cup {InsertRow(NewRoverSign(data), id)}}
             ELSE {(rows \ {record}) \cup {setattrs(record, data)} : record \in hit}

\* the delta after the body has assigned its date
resolved(data) == [data EXCEPT !.date = Some(resolve_date(data))]

\* faulty variant: with_session is the outer decorator, so the lock is released
\* when the body returns and the commit follows the release
upsert_rover_sign_session_outside(p) ==
    /\ pc[p] = "body"
    /\ op[p] = "upsert_rover_sign"
    /\ IF not_uid(arg[p])
       THEN /\ ret' = [ret EXCEPT ![p] = "None"]
            /\ pc' = [pc EXCEPT ![p] = "commit"]
            /\ UNCHANGED <<arg, session>>
       ELSE LET data == resolved(arg[p])
                rows == find_sign_record(data.uid, data.date[1])
            IN  /\ arg' = [arg EXCEPT ![p] = data]
                /\ \/ \E record \in rows :
                        LET result == setattrs(record, data)
                        IN  /\ session' = [session EXCEPT ![p] =
                                  [NoSession EXCEPT !.begun = TRUE,
                                                    !.found = Some(record),
                                                    !.record = Some(result)]]
                            /\ ret' = [ret EXCEPT ![p] = "record"]
                            /\ pc' = [pc EXCEPT ![p] = "commit"]
                   \/ /\ rows = {}
                      /\ LET result == NewRoverSign(data)
                         IN  /\ session' = [session EXCEPT ![p] =
                                   [NoSession EXCEPT !.begun = TRUE,
                                                     !.add = Some(result)]]
                             /\ ret' = [ret EXCEPT ![p] = "record"]
                             /\ pc' = [pc EXCEPT ![p] = "commit"]
                   \/ Raised(p)
    /\ DB_WRITE_LOCK' = [DB_WRITE_LOCK EXCEPT !.locked = FALSE]
    /\ UNCHANGED <<rover_sign, waves_user, next_id, clock, op, calls>>

upsert_rover_sign(p) ==
    /\ pc[p] = "body"
    /\ op[p] = "upsert_rover_sign"
    /\ IF not_uid(arg[p])
       THEN /\ ret' = [ret EXCEPT ![p] = "None"]
            /\ pc' = [pc EXCEPT ![p] = "commit"]
            /\ UNCHANGED <<arg, session>>
       ELSE LET data == resolved(arg[p])
                rows == find_sign_record(data.uid, data.date[1])
            IN  /\ arg' = [arg EXCEPT ![p] = data]
                /\ \/ \E record \in rows :
                        LET result == setattrs(record, data)
                        IN  /\ session' = [session EXCEPT ![p] =
                                  [NoSession EXCEPT !.begun = TRUE,
                                                    !.found = Some(record),
                                                    !.record = Some(result)]]
                            /\ ret' = [ret EXCEPT ![p] = "record"]
                            /\ pc' = [pc EXCEPT ![p] = "commit"]
                   \/ /\ rows = {}
                      /\ LET result == NewRoverSign(data)
                         IN  /\ session' = [session EXCEPT ![p] =
                                   [NoSession EXCEPT !.begun = TRUE,
                                                     !.add = Some(result)]]
                             /\ ret' = [ret EXCEPT ![p] = "record"]
                             /\ pc' = [pc EXCEPT ![p] = "commit"]
                   \/ Raised(p)
    /\ UNCHANGED <<DB_WRITE_LOCK, rover_sign, waves_user, next_id, clock, op, calls>>

\* delete(cls).where(date <= date)
clear_sign_record(p) ==
    /\ pc[p] = "body"
    /\ op[p] = "clear_sign_record"
    /\ \/ /\ session' = [session EXCEPT ![p] =
                [NoSession EXCEPT !.begun = TRUE,
                                  !.del = {r \in rover_sign :
                                              StrLeq(r.date, arg[p].date)}]]
          /\ ret' = [ret EXCEPT ![p] = "None"]
          /\ pc' = [pc EXCEPT ![p] = "commit"]
       \/ Raised(p)
    /\ UNCHANGED <<DB_WRITE_LOCK, rover_sign, waves_user, next_id, clock, op, arg, calls>>

\* ---- WavesUser ------------------------------------------------------------
\* column = value and column != value in a WHERE clause: never true of NULL
SqlEq(o, v) == o # None /\ o[1] = v

SqlNe(o, v) == o # None /\ o[1] # v

\* faulty variant: the rows are matched on the uid alone
mark_where_uid_only(uid, cookie) == {x \in waves_user : x.uid = uid}

\* .where(col(cls.uid) == uid).where(col(cls.cookie) == cookie)
mark_where(uid, cookie) ==
    {x \in waves_user : x.uid = uid /\ SqlEq(x.cookie, cookie)}

\* faulty variant: the query keeps every row that has a cookie
get_waves_all_user_with_cookie ==
    {x \in waves_user : x.cookie # None /\ SqlNe(x.cookie, "")}

\* select(cls) where cookie != null(), cookie != "", user_id != null(),
\* user_id != "": what the unserialized read returns from the committed table
get_waves_all_user ==
    {x \in waves_user : /\ x.cookie # None
                        /\ SqlNe(x.cookie, "")
                        /\ x.user_id # None
                        /\ SqlNe(x.user_id, "")}

\* update(cls).where(uid == uid).where(cookie == cookie).values(status=mark)
mark_cookie_invalid(p) ==
    /\ pc[p] = "body"
    /\ op[p] = "mark_cookie_invalid"
    /\ \/ /\ session' = [session EXCEPT ![p] =
                [NoSession EXCEPT !.begun = TRUE,
                                  !.upd = {u.id : u \in
                                              mark_where(arg[p].uid, arg[p].cookie)}]]
          /\ ret' = [ret EXCEPT ![p] = "True"]
          /\ pc' = [pc EXCEPT ![p] = "commit"]
       \/ Raised(p)
    /\ UNCHANGED <<DB_WRITE_LOCK, rover_sign, waves_user, next_id, clock, op, arg, calls>>

\* ---- callers and the clock --------------------------------------------------
call_upsert_rover_sign(p) ==
    \E data \in Deltas : with_lock(p, "upsert_rover_sign", data)

call_clear_sign_record(p) ==
    \E d \in 0..MaxDay : with_lock(p, "clear_sign_record", [date |-> DayStr(d)])

call_mark_cookie_invalid(p) ==
    \E u \in Uids \ {""}, c \in Cookies, m \in Marks :
        with_lock(p, "mark_cookie_invalid", [uid |-> u, cookie |-> c, mark |-> m])

\* midnight passes
Tick ==
    /\ clock < MaxDay
    /\ clock' = clock + 1
    /\ UNCHANGED <<DB_WRITE_LOCK, rover_sign, waves_user, next_id,
                   pc, op, arg, session, ret, calls>>

Next ==
    \/ \E p \in Procs : call_upsert_rover_sign(p)
    \/ \E p \in Procs : call_clear_sign_record(p)
    \/ \E p \in Procs : call_mark_cookie_invalid(p)
    \/ \E p \in Procs : lock_wakeup(p)
    \/ \E p \in Procs : upsert_rover_sign(p)
    \/ \E p \in Procs : clear_sign_record(p)
    \/ \E p \in Procs : mark_cookie_invalid(p)
    \/ \E p \in Procs : session_commit(p)
    \/ \E p \in Procs : lock_release(p)
    \/ Tick

Spec == Init /\ [][Next]_vars

\* ---- the lock under three callers, with the event loop running what can run --
LockProcs == 1..NumLockProcs

LockCalls ==
    {[op |-> "upsert_rover_sign", arg |-> build_game_sign("a")],
     [op |-> "clear_sign_record", arg |-> [date |-> DayStr(1)]],
     [op |-> "mark_cookie_invalid",
      arg |-> [uid |-> "a", cookie |-> "ck1", mark |-> "invalid"]]}

LockInit ==
    /\ DB_WRITE_LOCK = [locked |-> FALSE, waiters |-> <<>>]
    /\ rover_sign = {}
    /\ waves_user = InitUsers
    /\ next_id = 1
    /\ clock = 1
    /\ pc = [p \in LockProcs |-> "idle"]
    /\ op = [p \in LockProcs |-> "none"]
    /\ arg = [p \in LockProcs |-> <<>>]
    /\ session = [p \in LockProcs |-> NoSession]
    /\ ret = [p \in LockProcs |-> NoRet]
    /\ calls = 0

call_serialized(p) == \E c \in LockCalls : with_lock(p, c.op, c.arg)

\* what the event loop runs for a call that is under way: the wakeup of the
\* first waiter, the body, the commit or rollback, the release
Progress(p) ==
    \/ lock_wakeup(p)
    \/ upsert_rover_sign(p)
    \/ clear_sign_record(p)
    \/ mark_cookie_invalid(p)
    \/ session_commit(p)
    \/ lock_release(p)

LockNext ==
    \/ \E p \in LockProcs : call_serialized(p)
    \/ \E p \in LockProcs : Progress(p)
    \/ Tick

\* every persistence call returns or fails, and a task that can run is run
FairSpec ==
    /\ LockInit
    /\ [][LockNext]_vars
    /\ \A p \in LockProcs : WF_vars(Progress(p))

\* ---- properties -------------------------------------------------------------
\* positions of a call that holds the lock
InLock == {"body", "commit", "unlock"}

\* the step in which the unit of work of p's call commits successfully
Commits(p, o) ==
    /\ pc[p] = "commit"
    /\ pc'[p] = "unlock"
    /\ op[p] = o
    /\ ret'[p] # "raise"

\* the rows stored under a key
Keyed(rows, uid, date) == {r \in rows : r.uid = uid /\ r.date = date}

\* C1: the store never holds two RoverSign rows with the same (uid, date),
\* whatever upserts and purges ran, one after the other or concurrently.
C1_OneRecordPerKey ==
    \A r1 \in rover_sign, r2 \in rover_sign :
        (r1.uid = r2.uid /\ r1.date = r2.date) => r1 = r2

\* a repeated upsert committed on the row of its key, beside a row of
\* another key
C1_Witness ==
    \E p \in Procs :
        /\ pc[p] = "unlock" /\ op[p] = "upsert_rover_sign"
        /\ session[p].found # None
        /\ ret[p] = "record"
        /\ Cardinality(Keyed(rover_sign, arg[p].uid, arg[p].date[1])) = 1
        /\ Cardinality(rover_sign) >= 2

\* what one upsert, run alone on the table rows, may leave behind
SequentialUpsert(rows, data, id) ==
    LET hit == Keyed(rows, data.uid, data.date[1])
    IN  IF hit = {}
        THEN {rows \cup {[id |-> id, uid |-> data.uid, date |-> data.date[1],
                          game_sign  |-> IF data.game_sign = None THEN 0 ELSE data.game_sign[1],
                          bbs_sign   |-> IF data.bbs_sign = None THEN 0 ELSE data.bbs_sign[1],
                          bbs_detail |-> IF data.bbs_detail = None THEN 0 ELSE data.bbs_detail[1],
                          bbs_like   |-> IF data.bbs_like = None THEN 0 ELSE data.bbs_like[1],
                          bbs_share  |-> IF data.bbs_share = None THEN 0 ELSE data.bbs_share[1]]}}
        ELSE {(rows \ {r}) \cup
                 {[f \in DOMAIN r |->
                     IF f \in Fields /\ data[f] # None /\ data[f] # Some(0)
                     THEN data[f][1] ELSE r[f]]} : r \in hit}

\* C2: upserts do not interleave their find and their write: no two are
\* between lookup and commit at once, and every committing upsert changes the
\* table exactly as that upsert run alone on the table it commits to, so the
\* table after two concurrent upserts is the two deltas applied in commit order.
C2_NoLostUpdate ==
    [][\A p \in Procs :
          (Commits(p, "upsert_rover_sign") /\ arg[p].uid # "") =>
              /\ rover_sign' \in SequentialUpsert(rover_sign, arg[p], next_id)
              /\ \A q \in Procs \ {p} :
                    op[q] = "upsert_rover_sign" => pc[q] \notin InLock]_vars

\* an upsert has committed a change to the row of its key while another
\* upsert on the same key is waiting for the lock
C2_Witness ==
    \E p \in Procs, q \in Procs :
        /\ pc[p] = "unlock" /\ op[p] = "upsert_rover_sign"
        /\ ret[p] = "record"
        /\ session[p].found # None
        /\ session[p].record # session[p].found
        /\ session[p].record[1] \in rover_sign
        /\ pc[q] = "waiting" /\ op[q] = "upsert_rover_sign"
        /\ arg[q].uid = arg[p].uid
        /\ arg[q].date = None
        /\ arg[p].date = Some(get_today_date)

\* C3: at most one call of the three serialized operations is inside the lock
\* at any moment, whatever the operations and their keys are.
C3_MutualExclusion ==
    Cardinality({p \in Procs : pc[p] \in InLock}) <= 1

\* one operation runs its body while a call of another operation waits
C3_Witness ==
    \E p \in Procs, q \in Procs :
        /\ pc[p] = "commit" /\ op[p] = "mark_cookie_invalid"
        /\ pc[q] = "waiting" /\ op[q] = "clear_sign_record"

\* C4: the lock is held only while some call is inside it; a call leaving
\* the lock, by return or by an error of its body, frees the lock and hands
\* its result or its error unchanged to the caller.
C4_LockReleased ==
    [][/\ DB_WRITE_LOCK'.locked => \E p \in Procs : pc'[p] \in InLock
       /\ \A p \in Procs :
             (pc[p] \in InLock /\ pc'[p] = "idle") =>
                 /\ ~DB_WRITE_LOCK'.locked
                 /\ ret'[p] = ret[p]]_vars

\* a call raised and returned, and the call that waited behind it holds the lock
C4_Witness ==
    \E p \in Procs, q \in Procs :
        /\ pc[p] = "idle" /\ ret[p] = "raise"
        /\ pc[q] = "body"
        /\ DB_WRITE_LOCK.locked

\* the counter the delta gives, 0 when it gives none
Given(data, f) == IF data[f] = None THEN 0 ELSE data[f][1]

\* C5: an upsert with a non-empty uid that commits while no row exists for
\* its key leaves exactly one row for the key, and each of its five counters
\* is the delta's value, or 0 where the delta has None.
C5_CreateWithDefaults ==
    [][\A p \in Procs :
          (/\ Commits(p, "upsert_rover_sign")
           /\ arg[p].uid # ""
           /\ Keyed(rover_sign, arg[p].uid, arg[p].date[1]) = {}) =>
              /\ Cardinality(Keyed(rover_sign', arg[p].uid, arg[p].date[1])) = 1
              /\ \A r \in Keyed(rover_sign', arg[p].uid, arg[p].date[1]) :
                    \A f \in Fields : r[f] = Given(arg[p], f)]_vars

\* a row was created from a delta that gives one counter a non-zero value,
\* another 0 and leaves a third None
C5_Witness ==
    \E p \in Procs :
        /\ pc[p] = "unlock" /\ op[p] = "upsert_rover_sign"
        /\ ret[p] = "record"
        /\ session[p].add # None
        /\ \E f \in Fields, g \in Fields, h \in Fields :
              /\ arg[p][f] = None /\ arg[p][g] = Some(0)
              /\ arg[p][h] # None /\ arg[p][h] # Some(0)
        /\ \E r \in rover_sign :
              /\ r.uid = arg[p].uid /\ r.date = arg[p].date[1]
              /\ \A f \in Fields : r[f] = Given(arg[p], f)

\* C6: an upsert that commits on an existing row sets every counter for which
\* the delta gives a non-zero value to exactly that value, whatever the
\* counter held before.
C6_ReplaceNotIncrement ==
    [][\A p \in Procs :
          (Commits(p, "upsert_rover_sign") /\ arg[p].uid # "") =>
              \A r \in Keyed(rover_sign, arg[p].uid, arg[p].date[1]) :
                  \E r2 \in rover_sign' :
                      /\ r2.id = r.id
                      /\ \A f \in Fields :
                            Given(arg[p], f) # 0 => r2[f] = Given(arg[p], f)]_vars

\* a counter that held a non-zero value was given a different non-zero value
C6_Witness ==
    \E p \in Procs, f \in Fields :
        /\ pc[p] = "unlock" /\ op[p] = "upsert_rover_sign"
        /\ ret[p] = "record"
        /\ session[p].found # None
        /\ session[p].found[1][f] # 0
        /\ Given(arg[p], f) # 0
        /\ Given(arg[p], f) # session[p].found[1][f]
        /\ \E r \in rover_sign :
              r.id = session[p].found[1].id /\ r[f] = Given(arg[p], f)

\* C7: an upsert that commits on an existing row leaves every counter whose
\* delta field is None or 0 as it was; a delta with no non-zero counter
\* leaves the whole table as it was.
C7_FalsyKeeps ==
    [][\A p \in Procs :
          (Commits(p, "upsert_rover_sign") /\ arg[p].uid # "") =>
              LET hit == Keyed(rover_sign, arg[p].uid, arg[p].date[1])
              IN  /\ \A r \in hit :
                        \E r2 \in rover_sign' :
                            /\ r2.id = r.id
                            /\ \A f \in Fields :
                                  Given(arg[p], f) = 0 => r2[f] = r[f]
                  /\ (hit # {} /\ \A f \in Fields : Given(arg[p], f) = 0) =>
                        rover_sign' = rover_sign]_vars

\* a delta of zeros and None (build_bbs_sign or build) was committed on a row
\* that holds a non-zero counter where the delta holds 0
C7_Witness ==
    \E p \in Procs, f \in Fields :
        /\ pc[p] = "unlock" /\ op[p] = "upsert_rover_sign"
        /\ ret[p] = "record"
        /\ session[p].found # None
        /\ session[p].found[1][f] # 0
        /\ arg[p][f] = Some(0)
        /\ \A g \in Fields : Given(arg[p], g) = 0
        /\ session[p].found[1] \in rover_sign

\* C8: every step of an upsert whose uid is empty leaves both tables as they
\* are, and the call ends by returning None, never by raising.
C8_EmptyKeyNoOp ==
    [][\A p \in Procs :
          (op[p] = "upsert_rover_sign" /\ arg[p].uid = "" /\ pc'[p] # pc[p]) =>
              /\ rover_sign' = rover_sign
              /\ waves_user' = waves_user
              /\ next_id' = next_id
              /\ ret'[p] # "raise"
              /\ pc'[p] = "idle" => ret'[p] = "None"]_vars

\* an upsert with an empty uid and a non-zero counter has run on a table that
\* holds a row, and is about to return
C8_Witness ==
    \E p \in Procs :
        /\ pc[p] = "unlock" /\ op[p] = "upsert_rover_sign"
        /\ arg[p].uid = ""
        /\ arg[p].game_sign = Some(1)
        /\ ret[p] = "None"
        /\ rover_sign # {}

\* the date the upsert works on, from the delta as it was passed
KeyDate(data) ==
    IF data.date = None \/ data.date = Some(<<>>) THEN DayStr(clock) ELSE data.date[1]

\* C9: the body of an upsert with a non-empty uid looks up, and then updates
\* or adds, the row keyed by the delta's date when the delta carries one, and
\* by get_today_date() as of that moment when the date is None or empty.
C9_DateDefault ==
    [][\A p \in Procs :
          (/\ pc[p] = "body" /\ pc'[p] = "commit"
           /\ op[p] = "upsert_rover_sign" /\ arg[p].uid # "") =>
              LET hit == Keyed(rover_sign, arg[p].uid, KeyDate(arg[p]))
                  s == session'[p]
              IN  /\ hit = {} <=> s.found = None
                  /\ s.found # None => s.found[1] \in hit /\ s.record # None
                  /\ s.found = None =>
                        /\ s.add # None
                        /\ s.add[1].uid = arg[p].uid
                        /\ s.add[1].date = KeyDate(arg[p])]_vars

\* after midnight an upsert of a build_bbs_sign delta, which carries no date,
\* added a row for the new day beside the account's row of the day before
C9_Witness ==
    \E p \in Procs :
        /\ pc[p] = "unlock" /\ op[p] = "upsert_rover_sign"
        /\ ret[p] = "record"
        /\ session[p].add # None
        /\ clock = 2
        /\ arg[p].bbs_sign = Some(0)
        /\ arg[p].date = Some(DayStr(2))
        /\ \E r \in rover_sign : r.uid = arg[p].uid /\ r.date = DayStr(2)
        /\ \E r \in rover_sign : r.uid = arg[p].uid /\ r.date = DayStr(1)

\* s <= t on date strings
DateLeq(s, t) ==
    \/ s = t
    \/ \E i \in 1..(Len(s) + 1) :
          /\ i <= Len(t)
          /\ \A j \in 1..(i - 1) : s[j] = t[j]
          /\ i = Len(s) + 1 \/ s[i] < t[i]

\* C10: a purge that commits leaves exactly the rows whose date is greater
\* than the cutoff, each as it was; every row dated at or before the cutoff,
\* the cutoff day included, is gone.
C10_PurgeBoundary ==
    [][\A p \in Procs :
          Commits(p, "clear_sign_record") =>
              rover_sign' = {r \in rover_sign : ~DateLeq(r.date, arg[p].date)}]_vars

\* a purge removed a row dated exactly at the cutoff and kept a later row
C10_Witness ==
    \E p \in Procs :
        /\ pc[p] = "unlock" /\ op[p] = "clear_sign_record"
        /\ ret[p] = "None"
        /\ \E r \in session[p].del : r.date = arg[p].date /\ r \notin rover_sign
        /\ \E r \in rover_sign : r.date # arg[p].date

\* C12: a mark_cookie_invalid that commits sets status to the marker on every
\* credential row whose uid and cookie both equal the arguments, leaves every
\* other row and the sign table as they were, and returns True, also when no
\* row matched.
C12_MarkCookieInvalid ==
    [][\A p \in Procs :
          Commits(p, "mark_cookie_invalid") =>
              /\ waves_user' =
                    {IF u.uid = arg[p].uid /\ u.cookie = Some(arg[p].cookie)
                     THEN [u EXCEPT !.status = arg[p].mark] ELSE u : u \in waves_user}
              /\ rover_sign' = rover_sign
              /\ ret'[p] = "True"]_vars

\* a mark that matched no row is about to return True, on a table in which an
\* earlier mark set the marker on the rows of one (uid, cookie) pair only
C12_Witness ==
    \E p \in Procs :
        /\ pc[p] = "unlock" /\ op[p] = "mark_cookie_invalid"
        /\ ret[p] = "True"
        /\ session[p].upd = {}
        /\ \E u \in waves_user : u.status = "invalid"
        /\ \A u \in waves_user :
              u.status = "invalid" <=> (u.uid = "a" /\ u.cookie = Some("ck1"))
        /\ \E u \in waves_user : u.uid = "a" /\ u.status = ""
        /\ \E u \in waves_user : u.uid = arg[p].uid /\ u.cookie # Some(arg[p].cookie)

\* C13: get_waves_all_user returns exactly the credential rows whose cookie
\* is neither NULL nor "" and whose user_id is neither NULL nor "", whatever
\* their status is.
C13_ActiveUserFilter ==
    get_waves_all_user =
        {u \in waves_user : /\ u.cookie \notin {None, Some("")}
                            /\ u.user_id \notin {None, Some("")}}

\* the read returns a row marked invalid beside an unmarked one and leaves out
\* rows with an empty or NULL cookie and rows with an empty or NULL user_id
C13_Witness ==
    /\ \E u \in get_waves_all_user : u.status = "invalid"
    /\ \E u \in get_waves_all_user : u.status = ""
    /\ \E u \in waves_user \ get_waves_all_user : u.cookie = None
    /\ \E u \in waves_user \ get_waves_all_user : u.cookie = Some("")
    /\ \E u \in waves_user \ get_waves_all_user : u.user_id = None
    /\ \E u \in waves_user \ get_waves_all_user :
          u.user_id = Some("") /\ u.status = "invalid"

\* every committing upsert changes the table as upsert_alone does
CommitIsUpsertAlone ==
    \A p \in Procs :
        Commits(p, "upsert_rover_sign") =>
            rover_sign' \in upsert_alone(rover_sign, arg[p], next_id)

\* on the present table, a second run of any delta changes nothing
Idempotent ==
    \A d \in {resolved(x) : x \in Deltas} :
        \A once \in upsert_alone(rover_sign, d, next_id) :
            upsert_alone(once, d, next_id + 1) = {once}

\* C11: on every table the program commits and for every delta, running the
\* upsert a second time with the same delta (its date as the first run left
\* it) changes nothing: the table after two runs is the table after one; and
\* every committing upsert changes the table as the upsert run alone.
C11_Idempotent ==
    [][/\ calls = 0 => Idempotent
       /\ rover_sign' # rover_sign => Idempotent'
       /\ CommitIsUpsertAlone]_vars

\* an upsert committed on a row that looks as this very delta creates it, and
\* left it as it was
C11_Witness ==
    \E p \in Procs :
        /\ pc[p] = "unlock" /\ op[p] = "upsert_rover_sign"
        /\ ret[p] = "record"
        /\ session[p].found # None
        /\ session[p].record = session[p].found
        /\ \A f \in Fields : session[p].found[1][f] = Given(arg[p], f)
        /\ \E f \in Fields : Given(arg[p], f) # 0
        /\ session[p].found[1] \in rover_sign

\* the counters for which a delta gives a non-zero value
NonZero(data) == {f \in Fields : Given(data, f) # 0}

\* the tables left by d1 and then d2, each run alone
Both(rows, d1, d2, id) ==
    UNION {upsert_alone(first, d2, id + 1) : first \in upsert_alone(rows, d1, id)}

\* on the present table, two deltas for one key with disjoint non-zero
\* counters leave the same table in either order
Commute ==
    LET D == {resolved(d) : d \in {x \in Deltas : x.uid # ""}}
    IN  \A d1 \in D :
            \A d2 \in {x \in D : /\ x.uid = d1.uid /\ x.date = d1.date
                                 /\ NonZero(x) \cap NonZero(d1) = {}} :
                Both(rover_sign, d1, d2, next_id) = Both(rover_sign, d2, d1, next_id)

\* C19: on every table the program commits, two deltas for the same key whose
\* non-zero counters are disjoint leave the same table in either order,
\* whether the key had a row or not; and every committing upsert changes the
\* table as the upsert run alone, so the order of two concurrent upserts in
\* taking the lock does not show in the result.
C19_DisjointCommute ==
    [][/\ calls = 0 => Commute
       /\ rover_sign' # rover_sign => Commute'
       /\ CommitIsUpsertAlone]_vars

\* an upsert committed non-zero counters on a row whose own non-zero counters
\* are disjoint from them, and the row now holds both
C19_Witness ==
    \E p \in Procs :
        /\ pc[p] = "unlock" /\ op[p] = "upsert_rover_sign"
        /\ ret[p] = "record"
        /\ session[p].found # None
        /\ NonZero(arg[p]) # {}
        /\ {f \in Fields : session[p].found[1][f] # 0} # {}
        /\ NonZero(arg[p]) \cap {f \in Fields : session[p].found[1][f] # 0} = {}
        /\ \E r \in rover_sign :
              /\ r.id = session[p].found[1].id
              /\ \A f \in Fields :
                    r[f] = IF f \in NonZero(arg[p]) THEN Given(arg[p], f)
                           ELSE session[p].found[1][f]

\* C14: the step in which a serialized call fails leaves both tables as they
\* are and drops the unit of work; the tables change only in a commit that
\* succeeds, so no part of a failed call is ever visible; and a failed call
\* does nothing more than release the lock and raise to its caller.
C14_FaultLeavesStore ==
    [][/\ \A p \in Procs :
             (ret'[p] = "raise" /\ ret[p] # "raise") =>
                 /\ pc[p] \in {"body", "commit"} /\ pc'[p] = "unlock"
                 /\ rover_sign' = rover_sign
                 /\ waves_user' = waves_user
                 /\ next_id' = next_id
       /\ (rover_sign' # rover_sign \/ waves_user' # waves_user) =>
             \E p \in Procs : pc[p] = "commit" /\ pc'[p] = "unlock" /\ ret'[p] # "raise"
       /\ \A p \in Procs :
             (ret[p] = "raise" /\ pc[p] = "unlock" /\ pc'[p] # pc[p]) =>
                 /\ pc'[p] = "idle"
                 /\ ret'[p] = "raise"
                 /\ rover_sign' = rover_sign
                 /\ waves_user' = waves_user]_vars

\* the commit of an upsert that was to add a row failed: the call has raised
\* and the table, which holds another row, has no row for the upsert's key
C14_Witness ==
    \E p \in Procs :
        /\ pc[p] = "unlock" /\ op[p] = "upsert_rover_sign"
        /\ ret[p] = "raise"
        /\ session[p].add # None
        /\ rover_sign # {}
        /\ Keyed(rover_sign, arg[p].uid, arg[p].date[1]) = {}

\* the steps a serialized call takes, as pairs of positions
CallOrder ==
    {<<"idle", "body">>, <<"idle", "waiting">>, <<"waiting", "body">>,
     <<"body", "commit">>, <<"body", "unlock">>, <<"commit", "unlock">>,
     <<"unlock", "idle">>}

\* C15: a serialized call goes acquire, session and body, commit or rollback,
\* release, in this order; the lock is held from the acquire to the release;
\* and when a call's body runs its lookup no other call has a unit of work
\* open, so every call that held the lock before has committed or rolled back.
C15_LockSpansUnitOfWork ==
    /\ [](\A p \in Procs :
            /\ pc[p] \in InLock => DB_WRITE_LOCK.locked
            /\ session[p] # NoSession => pc[p] \in {"commit", "unlock"})
    /\ [][/\ \A p \in Procs :
                /\ pc'[p] # pc[p] => <<pc[p], pc'[p]>> \in CallOrder
                /\ (pc[p] = "body" /\ pc'[p] = "unlock") => ret'[p] = "raise"
                /\ (pc[p] = "body" /\ pc'[p] # "body") =>
                      \A q \in Procs \ {p} :
                          /\ pc[q] \in {"idle", "waiting"}
                          /\ session[q] = NoSession
          /\ (DB_WRITE_LOCK.locked /\ ~DB_WRITE_LOCK'.locked) =>
                \E p \in Procs : pc[p] = "unlock" /\ pc'[p] = "idle"
          /\ (rover_sign' # rover_sign \/ waves_user' # waves_user) =>
                \E p \in Procs : pc[p] = "commit" /\ DB_WRITE_LOCK.locked]_vars

\* an upsert found the row that the call before it committed, while the
\* next call waits for the lock
C15_Witness ==
    \E p \in Procs, q \in Procs :
        /\ pc[p] = "commit" /\ op[p] = "upsert_rover_sign"
        /\ session[p].found # None
        /\ session[p].found[1] \in rover_sign
        /\ pc[q] = "waiting"
        /\ DB_WRITE_LOCK.waiters = <<q>>

\* the keys a row can be stored under
Keys == {<<u, DayStr(d)>> : u \in Uids, d \in 1..MaxDay}

\* C17: the key (uid, date) comes to hold a row only when an upsert on that
\* key commits, and the row then holds the delta's counters and nothing else;
\* it stops holding a row only when a purge commits whose cutoff is at or
\* after its date; an upsert that commits, on any key, removes no key.
C17_KeyLifecycle ==
    [][\A k \in Keys :
          LET before == Keyed(rover_sign, k[1], k[2])
              after  == Keyed(rover_sign', k[1], k[2])
          IN  /\ (before = {} /\ after # {}) =>
                    \E p \in Procs :
                        /\ Commits(p, "upsert_rover_sign")
                        /\ arg[p].uid = k[1] /\ arg[p].date = Some(k[2])
                        /\ \A r \in after, f \in Fields : r[f] = Given(arg[p], f)
              /\ (before # {} /\ after = {}) =>
                    \E p \in Procs :
                        /\ Commits(p, "clear_sign_record")
                        /\ DateLeq(k[2], arg[p].date)
              /\ (before # {} /\ \E p \in Procs : Commits(p, "upsert_rover_sign")) =>
                    after # {}]_vars

\* after a purge had removed the first row and emptied the table, an upsert
\* created the row of its key anew: it is the second row ever stored, the only
\* one in the table, and it holds the counters of the delta alone
C17_Witness ==
    \E p \in Procs :
        /\ pc[p] = "unlock" /\ op[p] = "upsert_rover_sign"
        /\ ret[p] = "record"
        /\ session[p].add # None
        /\ next_id = 3
        /\ \E r \in rover_sign :
              /\ rover_sign = {r}
              /\ r.id = 2
              /\ r.uid = arg[p].uid /\ r.date = arg[p].date[1]
              /\ \A f \in Fields : r[f] = Given(arg[p], f)
              /\ \E f \in Fields : r[f] = 0

\* C18: a counter of a stored row that is not 0 is not 0 after any step, on
\* the same row, unless the step is the commit of a purge whose cutoff is at
\* or after the row's date; so no upsert, whatever its delta, resets it.
C18_ProgressNeverReset ==
    [][rover_sign' # rover_sign =>
          \A r \in rover_sign, f \in Fields :
              r[f] # 0 =>
                  \/ \E r2 \in rover_sign' :
                        /\ r2.id = r.id /\ r2.uid = r.uid /\ r2.date = r.date
                        /\ r2[f] # 0
                  \/ \E p \in Procs :
                        /\ Commits(p, "clear_sign_record")
                        /\ DateLeq(r.date, arg[p].date)]_vars

\* an upsert whose delta holds 0 for a counter the row has set, and a value
\* for another counter, was committed: the row has the new value and still
\* has the counter it had
C18_Witness ==
    \E p \in Procs, f \in Fields, g \in Fields :
        /\ pc[p] = "unlock" /\ op[p] = "upsert_rover_sign"
        /\ ret[p] = "record"
        /\ session[p].found # None
        /\ session[p].found[1][f] # 0
        /\ arg[p][f] = Some(0)
        /\ Given(arg[p], g) # 0
        /\ session[p].found[1][g] = 0
        /\ \E r \in rover_sign :
              /\ r.id = session[p].found[1].id
              /\ r[f] = session[p].found[1][f]
              /\ r[g] = Given(arg[p], g)

\* C20: an upsert with a non-empty uid that commits leaves every row of
\* another uid or another date in the table as it was, adds exactly one row
\* when its key had none and none when it had one, and leaves the credential
\* rows as they were.
C20_OwnKeyOnly ==
    [][\A p \in Procs :
          (Commits(p, "upsert_rover_sign") /\ arg[p].uid # "") =>
              LET own(rows) == Keyed(rows, arg[p].uid, arg[p].date[1])
              IN  /\ rover_sign' \ own(rover_sign') = rover_sign \ own(rover_sign)
                  /\ Cardinality(rover_sign') =
                        Cardinality(rover_sign) + (IF own(rover_sign) = {} THEN 1 ELSE 0)
                  /\ waves_user' = waves_user]_vars

\* an upsert added the row of its key to a table that holds a row of the same
\* uid on another date and a row of another uid, both as they were
C20_Witness ==
    \E p \in Procs :
        /\ pc[p] = "unlock" /\ op[p] = "upsert_rover_sign"
        /\ ret[p] = "record"
        /\ session[p].add # None
        /\ Cardinality(rover_sign) = 3
        /\ \E r \in rover_sign : r.uid = arg[p].uid /\ r.date # arg[p].date[1]
        /\ \E r \in rover_sign : r.uid # arg[p].uid
        /\ \E r \in rover_sign : r.uid = arg[p].uid /\ r.date = arg[p].date[1]

\* the processes in a sequence
Range(q) == {q[i] : i \in 1..Len(q)}

\* C16: every call that waits for the lock gets it, and every call that has
\* the lock returns or raises and releases it; the waiters are exactly the
\* calls in line, a call joins the line at its end, the lock goes to the
\* first in line, and a new call takes the lock at once only when nobody waits.
C16_NoStarvationFifo ==
    /\ \A p \in LockProcs : (pc[p] = "waiting") ~> (pc[p] \in InLock)
    /\ \A p \in LockProcs : (pc[p] \in InLock) ~> (pc[p] = "idle" /\ ret[p] # NoRet)
    /\ [](/\ Range(DB_WRITE_LOCK.waiters) = {p \in LockProcs : pc[p] = "waiting"}
          /\ Len(DB_WRITE_LOCK.waiters) = Cardinality(Range(DB_WRITE_LOCK.waiters)))
    /\ [][\A p \in LockProcs :
             /\ (pc[p] = "idle" /\ pc'[p] = "waiting") =>
                   DB_WRITE_LOCK'.waiters = Append(DB_WRITE_LOCK.waiters, p)
             /\ (pc[p] = "waiting" /\ pc'[p] # "waiting") =>
                   /\ pc'[p] = "body"
                   /\ DB_WRITE_LOCK.waiters # <<>>
                   /\ p = Head(DB_WRITE_LOCK.waiters)
                   /\ DB_WRITE_LOCK'.waiters = Tail(DB_WRITE_LOCK.waiters)
             /\ (pc[p] = "idle" /\ pc'[p] = "body") =>
                   DB_WRITE_LOCK.waiters = <<>>]_vars

\* the call that held the lock has returned or raised and released it while
\* two calls wait in line, the second behind the first
C16_Witness ==
    \E p \in LockProcs, q \in LockProcs, r \in LockProcs :
        /\ q # r
        /\ pc[p] = "idle" /\ ret[p] # NoRet
        /\ ~DB_WRITE_LOCK.locked
        /\ DB_WRITE_LOCK.waiters = <<q, r>>
        /\ pc[q] = "waiting" /\ pc[r] = "waiting"

====
